---------------------------- MODULE Spec2Model ----------------------------
(***************************************************************************)
(* A model of the DNS wire codec of perryqh/dns: the 512-byte cursor       *)
(* buffer (byte_packet_buffer.rs), the header, question and record codecs  *)
(* (header.rs, question.rs, record.rs) and Packet::from_buffer (packet.rs).*)
(*                                                                         *)
(* A BytePacketBuffer value is a record [buf, pos, hi, seeks]: buf and pos *)
(* are the struct's fields; hi and seeks are bookkeeping of one call (the  *)
(* highest array index the call touched, the number of seek calls made).   *)
(* Every fallible function returns [st, err, val, b]: st is "ok", "err"    *)
(* (anyhow::bail! / the ? operator) or "panic" (panic!), b the buffer as   *)
(* the call leaves it; a failed call has no value.  A String is the        *)
(* sequence of its chars (code points), a byte string of its bytes.        *)
(***************************************************************************)
EXTENDS Integers, Sequences, FiniteSets, TLC

VARIABLES buf, pos, call, q, nops

vars == <<buf, pos, call, q, nops>>

\* buf: [u8; 512]
Capacity == 512

\* let max_jumps = 5;
max_jumps == 5

\* if len > 0x3f
MaxLabel == 63

\* The driver performs at most MaxOps calls on one buffer.
MaxOps == 2

Max(a, b) == IF a >= b THEN a ELSE b

\* The element of a one-element set.  A call's result is bound once, as in
\*     The({ IF r.st # "ok" THEN r ELSE <what follows> : r \in {<call>} })
\* which reads: let r = <call>?; <what follows>.
The(S) == CHOOSE x \in S : TRUE

NoVal == <<>>

Ok(b, v) == [st |-> "ok", err |-> "", val |-> v, b |-> b]

Bail(b, e) == [st |-> "err", err |-> e, val |-> NoVal, b |-> b]

Panic(b, e) == [st |-> "panic", err |-> e, val |-> NoVal, b |-> b]

EndOfBuffer == "End of buffer"

JumpLimit == "Limit of 5 jumps exceeded"

LabelTooLong == "Single label exceeds 63 characters of length"

\* the panic of an array index or a slice range outside the array
IndexOutOfBounds == "index out of bounds"

\* An access to self.buf[i]: the call's highest index is recorded.
Touch(b, i) == [b EXCEPT !.hi = Max(@, i)]

\* self.buf[i]: the byte, or the panic of an index outside the array
At(b, i) ==
    IF i \in DOMAIN b.buf THEN Ok(Touch(b, i), b.buf[i])
    ELSE Panic(b, IndexOutOfBounds)

\* self.buf[i] = val
SetAt(b, i, val) ==
    IF i \in DOMAIN b.buf
    THEN Ok([Touch(b, i) EXCEPT !.buf = [@ EXCEPT ![i] = val]], NoVal)
    ELSE Panic(b, IndexOutOfBounds)

\* &self.buf[start..end]
Slice(b, start, end) ==
    IF start <= end /\ end <= Capacity
    THEN Ok(IF end > start THEN Touch(b, end - 1) ELSE b,
            [i \in 1..(end - start) |-> b.buf[start + i - 1]])
    ELSE Panic(b, IndexOutOfBounds)

\* BytePacketBuffer::new
new == [buf |-> [i \in 0..(Capacity - 1) |-> 0], pos |-> 0, hi |-> -1, seeks |-> 0]

\* A variant of step that moves the cursor by one, whatever it is asked.
step_by_one(b, steps) == Ok([b EXCEPT !.pos = @ + 1], NoVal)

step(b, steps) == Ok([b EXCEPT !.pos = @ + steps], NoVal)

\* A variant of seek that stops at the end of the buffer.
seek_clamped(b, p) ==
    Ok([b EXCEPT !.pos = IF p > Capacity THEN Capacity ELSE p,
                 !.seeks = @ + 1], NoVal)

seek(b, p) == Ok([b EXCEPT !.pos = p, !.seeks = @ + 1], NoVal)

read(b) ==
    IF b.pos >= Capacity THEN Bail(b, EndOfBuffer) ELSE
    LET r == At(b, b.pos) IN
    IF r.st # "ok" THEN r ELSE Ok([r.b EXCEPT !.pos = @ + 1], r.val)

\* A variant of get that refuses only offsets above 512.
get_past_end(b, p) ==
    IF p > Capacity THEN Bail(b, EndOfBuffer) ELSE At(b, p)

get(b, p) ==
    IF p >= Capacity THEN Bail(b, EndOfBuffer) ELSE At(b, p)

get_range(b, start, len) ==
    IF start + len >= Capacity THEN Bail(b, EndOfBuffer)
    ELSE Slice(b, start, start + len)

read_u16(b) ==
    The({ IF r1.st # "ok" THEN r1 ELSE
    The({ IF r2.st # "ok" THEN r2 ELSE
          Ok(r2.b, r1.val * 256 + r2.val)
        : r2 \in {read(r1.b)} })
        : r1 \in {read(b)} })

\* A u32 is held as its four bytes, most significant first: TLC's integers
\* are 32-bit signed, so 0x80000000 and above have no integer.  U32(a, b, c,
\* d) is (a << 24) | (b << 16) | (c << 8) | d, and Byte(v, k) is
\* (v >> (24 - 8k)) & 0xFF for k = 0..3.
U32(a, b, c, d) == <<a, b, c, d>>

Byte(v, k) == v[k + 1]

read_u32(b) ==
    The({ IF r1.st # "ok" THEN r1 ELSE
    The({ IF r2.st # "ok" THEN r2 ELSE
    The({ IF r3.st # "ok" THEN r3 ELSE
    The({ IF r4.st # "ok" THEN r4 ELSE
          Ok(r4.b, U32(r1.val, r2.val, r3.val, r4.val))
        : r4 \in {read(r3.b)} })
        : r3 \in {read(r2.b)} })
        : r2 \in {read(r1.b)} })
        : r1 \in {read(b)} })

write(b, val) ==
    IF b.pos >= Capacity THEN Bail(b, EndOfBuffer) ELSE
    LET r == SetAt(b, b.pos, val) IN
    IF r.st # "ok" THEN r ELSE Ok([r.b EXCEPT !.pos = @ + 1], NoVal)

write_u8(b, val) == write(b, val)

\* A variant of write_u16 that writes the least significant byte first.
write_u16_low_first(b, val) ==
    The({ IF r1.st # "ok" THEN r1 ELSE
          write(r1.b, val \div 256)
        : r1 \in {write(b, val % 256)} })

write_u16(b, val) ==
    The({ IF r1.st # "ok" THEN r1 ELSE
          write(r1.b, val % 256)
        : r1 \in {write(b, val \div 256)} })

write_u32(b, val) ==
    The({ IF r1.st # "ok" THEN r1 ELSE
    The({ IF r2.st # "ok" THEN r2 ELSE
    The({ IF r3.st # "ok" THEN r3 ELSE
          write(r3.b, Byte(val, 3))
        : r3 \in {write(r2.b, Byte(val, 2))} })
        : r2 \in {write(r1.b, Byte(val, 1))} })
        : r1 \in {write(b, Byte(val, 0))} })

----------------------------------------------------------------------------
(* String::from_utf8_lossy(..).to_lowercase() and str::as_bytes.  A String  *)
(* is the sequence of its chars, a char its code point.                     *)

\* U+FFFD REPLACEMENT CHARACTER
REPLACEMENT == 65533

\* U+03A3 GREEK CAPITAL LETTER SIGMA
SIGMA == 931

\* an element of a sequence, not a filler
Present(c) == c >= 0

\* The sequences of seqs, each of at most w elements, one after another:
\* each is laid out in w places, the places left over are dropped.
Concat(seqs, w) ==
    The({ SelectSeq([k \in 1..(w * Len(ss)) |->
                        LET e == ss[((k - 1) \div w) + 1]
                            j == ((k - 1) % w) + 1
                        IN  IF j <= Len(e) THEN e[j] ELSE -1],
                    Present)
        : ss \in {seqs} })

IsAscii(s) == \A i \in 1..Len(s) : s[i] < 128

\* the UTF-8 encoding of one char
encode_utf8(c) ==
    IF c < 128 THEN <<c>>
    ELSE IF c < 2048 THEN <<192 + (c \div 64), 128 + (c % 64)>>
    ELSE IF c < 65536
         THEN <<224 + (c \div 4096), 128 + ((c \div 64) % 64), 128 + (c % 64)>>
    ELSE <<240 + (c \div 262144), 128 + ((c \div 4096) % 64),
           128 + ((c \div 64) % 64), 128 + (c % 64)>>

\* str::as_bytes: the UTF-8 bytes of a string
as_bytes(s) ==
    The({ IF IsAscii(t) THEN t
          ELSE Concat([i \in 1..Len(t) |-> encode_utf8(t[i])], 4)
        : t \in {s} })

\* the byte at index i, or 0 past the end
safe_get(bytes, i) == IF i <= Len(bytes) THEN bytes[i] ELSE 0

\* a continuation byte 10xxxxxx
IsCont(x) == x \in 128..191

\* the second byte a three-byte sequence may have after its first
Second3(first, second) ==
    \/ first = 224 /\ second \in 160..191
    \/ first \in 225..236 /\ second \in 128..191
    \/ first = 237 /\ second \in 128..159
    \/ first \in 238..239 /\ second \in 128..191

\* the second byte a four-byte sequence may have after its first
Second4(first, second) ==
    \/ first = 240 /\ second \in 144..191
    \/ first \in 241..243 /\ second \in 128..191
    \/ first = 244 /\ second \in 128..143

\* The char decoded at index i of bytes and the number of bytes it takes: a
\* well-formed sequence gives its code point; otherwise the bytes up to the
\* first one that cannot continue the sequence give one U+FFFD.
lossy_char(bytes, i) ==
    LET b0 == bytes[i]
        b1 == safe_get(bytes, i + 1)
        b2 == safe_get(bytes, i + 2)
        b3 == safe_get(bytes, i + 3)
    IN  IF b0 < 128 THEN <<b0, 1>>
        ELSE IF b0 \in 194..223
        THEN IF ~IsCont(b1) THEN <<REPLACEMENT, 1>>
             ELSE <<(b0 - 192) * 64 + (b1 - 128), 2>>
        ELSE IF b0 \in 224..239
        THEN IF ~Second3(b0, b1) THEN <<REPLACEMENT, 1>>
             ELSE IF ~IsCont(b2) THEN <<REPLACEMENT, 2>>
             ELSE <<(b0 - 224) * 4096 + (b1 - 128) * 64 + (b2 - 128), 3>>
        ELSE IF b0 \in 240..244
        THEN IF ~Second4(b0, b1) THEN <<REPLACEMENT, 1>>
             ELSE IF ~IsCont(b2) THEN <<REPLACEMENT, 2>>
             ELSE IF ~IsCont(b3) THEN <<REPLACEMENT, 3>>
             ELSE <<(b0 - 240) * 262144 + (b1 - 128) * 4096
                    + (b2 - 128) * 64 + (b3 - 128), 4>>
        ELSE <<REPLACEMENT, 1>>

\* A char is decoded at index i of bytes: at every byte that is not a
\* continuation byte, and at a continuation byte that the sequence begun at
\* the nearest byte before it that is not one does not take.
lossy_start(bytes, i) ==
    LET leads == {j \in 1..(i - 1) : ~IsCont(bytes[j])}
    IN  (IsCont(bytes[i]) /\ leads # {}) =>
            LET j == CHOOSE j \in leads : \A k \in leads : k <= j
            IN  i >= j + lossy_char(bytes, j)[2]

\* String::from_utf8_lossy: the chars decoded one after another from the
\* first byte on
from_utf8_lossy(bytes) ==
    The({ IF IsAscii(bs) THEN bs
          ELSE SelectSeq([i \in 1..Len(bs) |->
                             IF lossy_start(bs, i) THEN lossy_char(bs, i)[1]
                             ELSE -1],
                         Present)
        : bs \in {bytes} })

\* c lies in one of the ranges <<lo, hi>>
InRanges(c, ranges) ==
    \E k \in 1..Len(ranges) : c >= ranges[k][1] /\ c <= ranges[k][2]

\* The lowercase mapping of the chars that have one (Unicode 17.0), U+0130
\* apart: <<lo, hi, step, delta>> maps lo, lo + step, ... hi to itself + delta.
LOWERCASE_TABLE ==
    <<
    <<65, 90, 1, 32>>, <<192, 214, 1, 32>>, <<216, 222, 1, 32>>, <<256, 302, 2, 1>>,
    <<306, 310, 2, 1>>, <<313, 327, 2, 1>>, <<330, 374, 2, 1>>, <<376, 376, 1, -121>>,
    <<377, 381, 2, 1>>, <<385, 385, 1, 210>>, <<386, 388, 2, 1>>, <<390, 390, 1, 206>>,
    <<391, 391, 1, 1>>, <<393, 394, 1, 205>>, <<395, 395, 1, 1>>, <<398, 398, 1, 79>>,
    <<399, 399, 1, 202>>, <<400, 400, 1, 203>>, <<401, 401, 1, 1>>, <<403, 403, 1, 205>>,
    <<404, 404, 1, 207>>, <<406, 406, 1, 211>>, <<407, 407, 1, 209>>, <<408, 408, 1, 1>>,
    <<412, 412, 1, 211>>, <<413, 413, 1, 213>>, <<415, 415, 1, 214>>, <<416, 420, 2, 1>>,
    <<422, 422, 1, 218>>, <<423, 423, 1, 1>>, <<425, 425, 1, 218>>, <<428, 428, 1, 1>>,
    <<430, 430, 1, 218>>, <<431, 431, 1, 1>>, <<433, 434, 1, 217>>, <<435, 437, 2, 1>>,
    <<439, 439, 1, 219>>, <<440, 440, 1, 1>>, <<444, 444, 1, 1>>, <<452, 452, 1, 2>>,
    <<453, 453, 1, 1>>, <<455, 455, 1, 2>>, <<456, 456, 1, 1>>, <<458, 458, 1, 2>>,
    <<459, 475, 2, 1>>, <<478, 494, 2, 1>>, <<497, 497, 1, 2>>, <<498, 500, 2, 1>>,
    <<502, 502, 1, -97>>, <<503, 503, 1, -56>>, <<504, 542, 2, 1>>, <<544, 544, 1, -130>>,
    <<546, 562, 2, 1>>, <<570, 570, 1, 10795>>, <<571, 571, 1, 1>>, <<573, 573, 1, -163>>,
    <<574, 574, 1, 10792>>, <<577, 577, 1, 1>>, <<579, 579, 1, -195>>, <<580, 580, 1, 69>>,
    <<581, 581, 1, 71>>, <<582, 590, 2, 1>>, <<880, 882, 2, 1>>, <<886, 886, 1, 1>>,
    <<895, 895, 1, 116>>, <<902, 902, 1, 38>>, <<904, 906, 1, 37>>, <<908, 908, 1, 64>>,
    <<910, 911, 1, 63>>, <<913, 929, 1, 32>>, <<931, 939, 1, 32>>, <<975, 975, 1, 8>>,
    <<984, 1006, 2, 1>>, <<1012, 1012, 1, -60>>, <<1015, 1015, 1, 1>>, <<1017, 1017, 1, -7>>,
    <<1018, 1018, 1, 1>>, <<1021, 1023, 1, -130>>, <<1024, 1039, 1, 80>>, <<1040, 1071, 1, 32>>,
    <<1120, 1152, 2, 1>>, <<1162, 1214, 2, 1>>, <<1216, 1216, 1, 15>>, <<1217, 1229, 2, 1>>,
    <<1232, 1326, 2, 1>>, <<1329, 1366, 1, 48>>, <<4256, 4293, 1, 7264>>, <<4295, 4295, 1, 7264>>,
    <<4301, 4301, 1, 7264>>, <<5024, 5103, 1, 38864>>, <<5104, 5109, 1, 8>>, <<7305, 7305, 1, 1>>,
    <<7312, 7354, 1, -3008>>, <<7357, 7359, 1, -3008>>, <<7680, 7828, 2, 1>>, <<7838, 7838, 1, -7615>>,
    <<7840, 7934, 2, 1>>, <<7944, 7951, 1, -8>>, <<7960, 7965, 1, -8>>, <<7976, 7983, 1, -8>>,
    <<7992, 7999, 1, -8>>, <<8008, 8013, 1, -8>>, <<8025, 8031, 2, -8>>, <<8040, 8047, 1, -8>>,
    <<8072, 8079, 1, -8>>, <<8088, 8095, 1, -8>>, <<8104, 8111, 1, -8>>, <<8120, 8121, 1, -8>>,
    <<8122, 8123, 1, -74>>, <<8124, 8124, 1, -9>>, <<8136, 8139, 1, -86>>, <<8140, 8140, 1, -9>>,
    <<8152, 8153, 1, -8>>, <<8154, 8155, 1, -100>>, <<8168, 8169, 1, -8>>, <<8170, 8171, 1, -112>>,
    <<8172, 8172, 1, -7>>, <<8184, 8185, 1, -128>>, <<8186, 8187, 1, -126>>, <<8188, 8188, 1, -9>>,
    <<8486, 8486, 1, -7517>>, <<8490, 8490, 1, -8383>>, <<8491, 8491, 1, -8262>>, <<8498, 8498, 1, 28>>,
    <<8544, 8559, 1, 16>>, <<8579, 8579, 1, 1>>, <<9398, 9423, 1, 26>>, <<11264, 11311, 1, 48>>,
    <<11360, 11360, 1, 1>>, <<11362, 11362, 1, -10743>>, <<11363, 11363, 1, -3814>>, <<11364, 11364, 1, -10727>>,
    <<11367, 11371, 2, 1>>, <<11373, 11373, 1, -10780>>, <<11374, 11374, 1, -10749>>, <<11375, 11375, 1, -10783>>,
    <<11376, 11376, 1, -10782>>, <<11378, 11378, 1, 1>>, <<11381, 11381, 1, 1>>, <<11390, 11391, 1, -10815>>,
    <<11392, 11490, 2, 1>>, <<11499, 11501, 2, 1>>, <<11506, 11506, 1, 1>>, <<42560, 42604, 2, 1>>,
    <<42624, 42650, 2, 1>>, <<42786, 42798, 2, 1>>, <<42802, 42862, 2, 1>>, <<42873, 42875, 2, 1>>,
    <<42877, 42877, 1, -35332>>, <<42878, 42886, 2, 1>>, <<42891, 42891, 1, 1>>, <<42893, 42893, 1, -42280>>,
    <<42896, 42898, 2, 1>>, <<42902, 42920, 2, 1>>, <<42922, 42922, 1, -42308>>, <<42923, 42923, 1, -42319>>,
    <<42924, 42924, 1, -42315>>, <<42925, 42925, 1, -42305>>, <<42926, 42926, 1, -42308>>, <<42928, 42928, 1, -42258>>,
    <<42929, 42929, 1, -42282>>, <<42930, 42930, 1, -42261>>, <<42931, 42931, 1, 928>>, <<42932, 42946, 2, 1>>,
    <<42948, 42948, 1, -48>>, <<42949, 42949, 1, -42307>>, <<42950, 42950, 1, -35384>>, <<42951, 42953, 2, 1>>,
    <<42955, 42955, 1, -42343>>, <<42956, 42970, 2, 1>>, <<42972, 42972, 1, -42561>>, <<42997, 42997, 1, 1>>,
    <<65313, 65338, 1, 32>>, <<66560, 66599, 1, 40>>, <<66736, 66771, 1, 40>>, <<66928, 66938, 1, 39>>,
    <<66940, 66954, 1, 39>>, <<66956, 66962, 1, 39>>, <<66964, 66965, 1, 39>>, <<68736, 68786, 1, 64>>,
    <<68944, 68965, 1, 32>>, <<71840, 71871, 1, 32>>, <<93760, 93791, 1, 32>>, <<93856, 93880, 1, 27>>,
    <<125184, 125217, 1, 34>>
    >>

\* the chars with the property Cased (Unicode 17.0), as ranges <<lo, hi>>
CASED_RANGES ==
    <<
    <<65, 90>>, <<97, 122>>, <<170, 170>>, <<181, 181>>, <<186, 186>>, <<192, 214>>,
    <<216, 246>>, <<248, 442>>, <<444, 447>>, <<452, 659>>, <<662, 696>>, <<704, 705>>,
    <<736, 740>>, <<837, 837>>, <<880, 883>>, <<886, 887>>, <<890, 893>>, <<895, 895>>,
    <<902, 902>>, <<904, 906>>, <<908, 908>>, <<910, 929>>, <<931, 1013>>, <<1015, 1153>>,
    <<1162, 1327>>, <<1329, 1366>>, <<1376, 1416>>, <<4256, 4293>>, <<4295, 4295>>, <<4301, 4301>>,
    <<4304, 4346>>, <<4348, 4351>>, <<5024, 5109>>, <<5112, 5117>>, <<7296, 7306>>, <<7312, 7354>>,
    <<7357, 7359>>, <<7424, 7615>>, <<7680, 7957>>, <<7960, 7965>>, <<7968, 8005>>, <<8008, 8013>>,
    <<8016, 8023>>, <<8025, 8025>>, <<8027, 8027>>, <<8029, 8029>>, <<8031, 8061>>, <<8064, 8116>>,
    <<8118, 8124>>, <<8126, 8126>>, <<8130, 8132>>, <<8134, 8140>>, <<8144, 8147>>, <<8150, 8155>>,
    <<8160, 8172>>, <<8178, 8180>>, <<8182, 8188>>, <<8305, 8305>>, <<8319, 8319>>, <<8336, 8348>>,
    <<8450, 8450>>, <<8455, 8455>>, <<8458, 8467>>, <<8469, 8469>>, <<8473, 8477>>, <<8484, 8484>>,
    <<8486, 8486>>, <<8488, 8488>>, <<8490, 8493>>, <<8495, 8500>>, <<8505, 8505>>, <<8508, 8511>>,
    <<8517, 8521>>, <<8526, 8526>>, <<8544, 8575>>, <<8579, 8580>>, <<9398, 9449>>, <<11264, 11492>>,
    <<11499, 11502>>, <<11506, 11507>>, <<11520, 11557>>, <<11559, 11559>>, <<11565, 11565>>, <<42560, 42605>>,
    <<42624, 42653>>, <<42786, 42887>>, <<42891, 42894>>, <<42896, 42972>>, <<42993, 42998>>, <<43000, 43002>>,
    <<43824, 43866>>, <<43868, 43881>>, <<43888, 43967>>, <<64256, 64262>>, <<64275, 64279>>, <<65313, 65338>>,
    <<65345, 65370>>, <<66560, 66639>>, <<66736, 66771>>, <<66776, 66811>>, <<66928, 66938>>, <<66940, 66954>>,
    <<66956, 66962>>, <<66964, 66965>>, <<66967, 66977>>, <<66979, 66993>>, <<66995, 67001>>, <<67003, 67004>>,
    <<67456, 67456>>, <<67459, 67461>>, <<67463, 67504>>, <<67506, 67514>>, <<68736, 68786>>, <<68800, 68850>>,
    <<68944, 68965>>, <<68976, 68997>>, <<71840, 71903>>, <<93760, 93823>>, <<93856, 93880>>, <<93883, 93907>>,
    <<119808, 119892>>, <<119894, 119964>>, <<119966, 119967>>, <<119970, 119970>>, <<119973, 119974>>, <<119977, 119980>>,
    <<119982, 119993>>, <<119995, 119995>>, <<119997, 120003>>, <<120005, 120069>>, <<120071, 120074>>, <<120077, 120084>>,
    <<120086, 120092>>, <<120094, 120121>>, <<120123, 120126>>, <<120128, 120132>>, <<120134, 120134>>, <<120138, 120144>>,
    <<120146, 120485>>, <<120488, 120512>>, <<120514, 120538>>, <<120540, 120570>>, <<120572, 120596>>, <<120598, 120628>>,
    <<120630, 120654>>, <<120656, 120686>>, <<120688, 120712>>, <<120714, 120744>>, <<120746, 120770>>, <<120772, 120779>>,
    <<122624, 122633>>, <<122635, 122654>>, <<122661, 122666>>, <<122928, 122989>>, <<125184, 125251>>, <<127280, 127305>>,
    <<127312, 127337>>, <<127344, 127369>>
    >>

\* the chars with the property Case_Ignorable (Unicode 17.0)
CASE_IGNORABLE_RANGES ==
    <<
    <<39, 39>>, <<46, 46>>, <<58, 58>>, <<94, 94>>, <<96, 96>>, <<168, 168>>,
    <<173, 173>>, <<175, 175>>, <<180, 180>>, <<183, 184>>, <<688, 879>>, <<884, 885>>,
    <<890, 890>>, <<900, 901>>, <<903, 903>>, <<1155, 1161>>, <<1369, 1369>>, <<1375, 1375>>,
    <<1425, 1469>>, <<1471, 1471>>, <<1473, 1474>>, <<1476, 1477>>, <<1479, 1479>>, <<1524, 1524>>,
    <<1536, 1541>>, <<1552, 1562>>, <<1564, 1564>>, <<1600, 1600>>, <<1611, 1631>>, <<1648, 1648>>,
    <<1750, 1757>>, <<1759, 1768>>, <<1770, 1773>>, <<1807, 1807>>, <<1809, 1809>>, <<1840, 1866>>,
    <<1958, 1968>>, <<2027, 2037>>, <<2042, 2042>>, <<2045, 2045>>, <<2070, 2093>>, <<2137, 2139>>,
    <<2184, 2184>>, <<2192, 2193>>, <<2199, 2207>>, <<2249, 2306>>, <<2362, 2362>>, <<2364, 2364>>,
    <<2369, 2376>>, <<2381, 2381>>, <<2385, 2391>>, <<2402, 2403>>, <<2417, 2417>>, <<2433, 2433>>,
    <<2492, 2492>>, <<2497, 2500>>, <<2509, 2509>>, <<2530, 2531>>, <<2558, 2558>>, <<2561, 2562>>,
    <<2620, 2620>>, <<2625, 2626>>, <<2631, 2632>>, <<2635, 2637>>, <<2641, 2641>>, <<2672, 2673>>,
    <<2677, 2677>>, <<2689, 2690>>, <<2748, 2748>>, <<2753, 2757>>, <<2759, 2760>>, <<2765, 2765>>,
    <<2786, 2787>>, <<2810, 2815>>, <<2817, 2817>>, <<2876, 2876>>, <<2879, 2879>>, <<2881, 2884>>,
    <<2893, 2893>>, <<2901, 2902>>, <<2914, 2915>>, <<2946, 2946>>, <<3008, 3008>>, <<3021, 3021>>,
    <<3072, 3072>>, <<3076, 3076>>, <<3132, 3132>>, <<3134, 3136>>, <<3142, 3144>>, <<3146, 3149>>,
    <<3157, 3158>>, <<3170, 3171>>, <<3201, 3201>>, <<3260, 3260>>, <<3263, 3263>>, <<3270, 3270>>,
    <<3276, 3277>>, <<3298, 3299>>, <<3328, 3329>>, <<3387, 3388>>, <<3393, 3396>>, <<3405, 3405>>,
    <<3426, 3427>>, <<3457, 3457>>, <<3530, 3530>>, <<3538, 3540>>, <<3542, 3542>>, <<3633, 3633>>,
    <<3636, 3642>>, <<3654, 3662>>, <<3761, 3761>>, <<3764, 3772>>, <<3782, 3782>>, <<3784, 3790>>,
    <<3864, 3865>>, <<3893, 3893>>, <<3895, 3895>>, <<3897, 3897>>, <<3953, 3966>>, <<3968, 3972>>,
    <<3974, 3975>>, <<3981, 3991>>, <<3993, 4028>>, <<4038, 4038>>, <<4141, 4144>>, <<4146, 4151>>,
    <<4153, 4154>>, <<4157, 4158>>, <<4184, 4185>>, <<4190, 4192>>, <<4209, 4212>>, <<4226, 4226>>,
    <<4229, 4230>>, <<4237, 4237>>, <<4253, 4253>>, <<4348, 4348>>, <<4957, 4959>>, <<5906, 5908>>,
    <<5938, 5939>>, <<5970, 5971>>, <<6002, 6003>>, <<6068, 6069>>, <<6071, 6077>>, <<6086, 6086>>,
    <<6089, 6099>>, <<6103, 6103>>, <<6109, 6109>>, <<6155, 6159>>, <<6211, 6211>>, <<6277, 6278>>,
    <<6313, 6313>>, <<6432, 6434>>, <<6439, 6440>>, <<6450, 6450>>, <<6457, 6459>>, <<6679, 6680>>,
    <<6683, 6683>>, <<6742, 6742>>, <<6744, 6750>>, <<6752, 6752>>, <<6754, 6754>>, <<6757, 6764>>,
    <<6771, 6780>>, <<6783, 6783>>, <<6823, 6823>>, <<6832, 6877>>, <<6880, 6891>>, <<6912, 6915>>,
    <<6964, 6964>>, <<6966, 6970>>, <<6972, 6972>>, <<6978, 6978>>, <<7019, 7027>>, <<7040, 7041>>,
    <<7074, 7077>>, <<7080, 7081>>, <<7083, 7085>>, <<7142, 7142>>, <<7144, 7145>>, <<7149, 7149>>,
    <<7151, 7153>>, <<7212, 7219>>, <<7222, 7223>>, <<7288, 7293>>, <<7376, 7378>>, <<7380, 7392>>,
    <<7394, 7400>>, <<7405, 7405>>, <<7412, 7412>>, <<7416, 7417>>, <<7468, 7530>>, <<7544, 7544>>,
    <<7579, 7679>>, <<8125, 8125>>, <<8127, 8129>>, <<8141, 8143>>, <<8157, 8159>>, <<8173, 8175>>,
    <<8189, 8190>>, <<8203, 8207>>, <<8216, 8217>>, <<8228, 8228>>, <<8231, 8231>>, <<8234, 8238>>,
    <<8288, 8292>>, <<8294, 8303>>, <<8305, 8305>>, <<8319, 8319>>, <<8336, 8348>>, <<8400, 8432>>,
    <<11388, 11389>>, <<11503, 11505>>, <<11631, 11631>>, <<11647, 11647>>, <<11744, 11775>>, <<11823, 11823>>,
    <<12293, 12293>>, <<12330, 12333>>, <<12337, 12341>>, <<12347, 12347>>, <<12441, 12446>>, <<12540, 12542>>,
    <<40981, 40981>>, <<42232, 42237>>, <<42508, 42508>>, <<42607, 42610>>, <<42612, 42621>>, <<42623, 42623>>,
    <<42652, 42655>>, <<42736, 42737>>, <<42752, 42785>>, <<42864, 42864>>, <<42888, 42890>>, <<42993, 42996>>,
    <<43000, 43001>>, <<43010, 43010>>, <<43014, 43014>>, <<43019, 43019>>, <<43045, 43046>>, <<43052, 43052>>,
    <<43204, 43205>>, <<43232, 43249>>, <<43263, 43263>>, <<43302, 43309>>, <<43335, 43345>>, <<43392, 43394>>,
    <<43443, 43443>>, <<43446, 43449>>, <<43452, 43453>>, <<43471, 43471>>, <<43493, 43494>>, <<43561, 43566>>,
    <<43569, 43570>>, <<43573, 43574>>, <<43587, 43587>>, <<43596, 43596>>, <<43632, 43632>>, <<43644, 43644>>,
    <<43696, 43696>>, <<43698, 43700>>, <<43703, 43704>>, <<43710, 43711>>, <<43713, 43713>>, <<43741, 43741>>,
    <<43756, 43757>>, <<43763, 43764>>, <<43766, 43766>>, <<43867, 43871>>, <<43881, 43883>>, <<44005, 44005>>,
    <<44008, 44008>>, <<44013, 44013>>, <<64286, 64286>>, <<64434, 64450>>, <<65024, 65039>>, <<65043, 65043>>,
    <<65056, 65071>>, <<65106, 65106>>, <<65109, 65109>>, <<65279, 65279>>, <<65287, 65287>>, <<65294, 65294>>,
    <<65306, 65306>>, <<65342, 65342>>, <<65344, 65344>>, <<65392, 65392>>, <<65438, 65439>>, <<65507, 65507>>,
    <<65529, 65531>>, <<66045, 66045>>, <<66272, 66272>>, <<66422, 66426>>, <<67456, 67461>>, <<67463, 67504>>,
    <<67506, 67514>>, <<68097, 68099>>, <<68101, 68102>>, <<68108, 68111>>, <<68152, 68154>>, <<68159, 68159>>,
    <<68325, 68326>>, <<68900, 68903>>, <<68942, 68942>>, <<68969, 68973>>, <<68975, 68975>>, <<69291, 69292>>,
    <<69317, 69317>>, <<69370, 69375>>, <<69446, 69456>>, <<69506, 69509>>, <<69633, 69633>>, <<69688, 69702>>,
    <<69744, 69744>>, <<69747, 69748>>, <<69759, 69761>>, <<69811, 69814>>, <<69817, 69818>>, <<69821, 69821>>,
    <<69826, 69826>>, <<69837, 69837>>, <<69888, 69890>>, <<69927, 69931>>, <<69933, 69940>>, <<70003, 70003>>,
    <<70016, 70017>>, <<70070, 70078>>, <<70089, 70092>>, <<70095, 70095>>, <<70191, 70193>>, <<70196, 70196>>,
    <<70198, 70199>>, <<70206, 70206>>, <<70209, 70209>>, <<70367, 70367>>, <<70371, 70378>>, <<70400, 70401>>,
    <<70459, 70460>>, <<70464, 70464>>, <<70502, 70508>>, <<70512, 70516>>, <<70587, 70592>>, <<70606, 70606>>,
    <<70608, 70608>>, <<70610, 70610>>, <<70625, 70626>>, <<70712, 70719>>, <<70722, 70724>>, <<70726, 70726>>,
    <<70750, 70750>>, <<70835, 70840>>, <<70842, 70842>>, <<70847, 70848>>, <<70850, 70851>>, <<71090, 71093>>,
    <<71100, 71101>>, <<71103, 71104>>, <<71132, 71133>>, <<71219, 71226>>, <<71229, 71229>>, <<71231, 71232>>,
    <<71339, 71339>>, <<71341, 71341>>, <<71344, 71349>>, <<71351, 71351>>, <<71453, 71453>>, <<71455, 71455>>,
    <<71458, 71461>>, <<71463, 71467>>, <<71727, 71735>>, <<71737, 71738>>, <<71995, 71996>>, <<71998, 71998>>,
    <<72003, 72003>>, <<72148, 72151>>, <<72154, 72155>>, <<72160, 72160>>, <<72193, 72202>>, <<72243, 72248>>,
    <<72251, 72254>>, <<72263, 72263>>, <<72273, 72278>>, <<72281, 72283>>, <<72330, 72342>>, <<72344, 72345>>,
    <<72544, 72544>>, <<72546, 72548>>, <<72550, 72550>>, <<72752, 72758>>, <<72760, 72765>>, <<72767, 72767>>,
    <<72850, 72871>>, <<72874, 72880>>, <<72882, 72883>>, <<72885, 72886>>, <<73009, 73014>>, <<73018, 73018>>,
    <<73020, 73021>>, <<73023, 73029>>, <<73031, 73031>>, <<73104, 73105>>, <<73109, 73109>>, <<73111, 73111>>,
    <<73177, 73177>>, <<73459, 73460>>, <<73472, 73473>>, <<73526, 73530>>, <<73536, 73536>>, <<73538, 73538>>,
    <<73562, 73562>>, <<78896, 78912>>, <<78919, 78933>>, <<90398, 90409>>, <<90413, 90415>>, <<92912, 92916>>,
    <<92976, 92982>>, <<92992, 92995>>, <<93504, 93506>>, <<93547, 93548>>, <<94031, 94031>>, <<94095, 94111>>,
    <<94176, 94177>>, <<94179, 94180>>, <<94194, 94195>>, <<110576, 110579>>, <<110581, 110587>>, <<110589, 110590>>,
    <<113821, 113822>>, <<113824, 113827>>, <<118528, 118573>>, <<118576, 118598>>, <<119143, 119145>>, <<119155, 119170>>,
    <<119173, 119179>>, <<119210, 119213>>, <<119362, 119364>>, <<121344, 121398>>, <<121403, 121452>>, <<121461, 121461>>,
    <<121476, 121476>>, <<121499, 121503>>, <<121505, 121519>>, <<122880, 122886>>, <<122888, 122904>>, <<122907, 122913>>,
    <<122915, 122916>>, <<122918, 122922>>, <<122928, 122989>>, <<123023, 123023>>, <<123184, 123197>>, <<123566, 123566>>,
    <<123628, 123631>>, <<124139, 124143>>, <<124398, 124399>>, <<124643, 124643>>, <<124646, 124646>>, <<124654, 124655>>,
    <<124661, 124661>>, <<124671, 124671>>, <<125136, 125142>>, <<125252, 125259>>, <<127995, 127999>>, <<917505, 917505>>,
    <<917536, 917631>>, <<917760, 917999>>
    >>

Cased(c) == InRanges(c, CASED_RANGES)

Case_Ignorable(c) == InRanges(c, CASE_IGNORABLE_RANGES)

\* A variant of to_lower that keeps the case of the char.
KeepCase(c) == <<c>>

\* char::to_lowercase: the chars c is mapped to (U+0130 gives two)
to_lower(c) ==
    IF c < 128 THEN <<IF c >= 65 /\ c <= 90 THEN c + 32 ELSE c>>
    ELSE IF c = 304 THEN <<105, 775>>
    ELSE The({ IF rows = {} THEN <<c>>
               ELSE <<c + LOWERCASE_TABLE[The(rows)][4]>>
             : rows \in {{k \in 1..Len(LOWERCASE_TABLE) :
                            /\ c >= LOWERCASE_TABLE[k][1]
                            /\ c <= LOWERCASE_TABLE[k][2]
                            /\ (c - LOWERCASE_TABLE[k][1])
                                    % LOWERCASE_TABLE[k][3] = 0}} })

\* the chars of s before index i, last first, skipping the case-ignorable
\* ones, begin with a cased char
cased_before(s, i) ==
    \E j \in 1..(i - 1) :
        /\ Cased(s[j]) /\ ~Case_Ignorable(s[j])
        /\ \A k \in (j + 1)..(i - 1) : Case_Ignorable(s[k])

\* the chars of s after index i, skipping the case-ignorable ones, begin
\* with a cased char
cased_after(s, i) ==
    \E j \in (i + 1)..Len(s) :
        /\ Cased(s[j]) /\ ~Case_Ignorable(s[j])
        /\ \A k \in (i + 1)..(j - 1) : Case_Ignorable(s[k])

\* the capital sigma at index i of s, in lower case: the final form at the
\* end of a word
map_uppercase_sigma(s, i) ==
    IF cased_before(s, i) /\ ~cased_after(s, i) THEN <<962>> ELSE <<963>>

\* str::to_lowercase
to_lowercase(s) ==
    The({ IF IsAscii(t) THEN [i \in 1..Len(t) |-> to_lower(t[i])[1]]
          ELSE Concat([i \in 1..Len(t) |->
                          IF t[i] = SIGMA THEN map_uppercase_sigma(t, i)
                          ELSE to_lower(t[i])], 2)
        : t \in {s} })

----------------------------------------------------------------------------
(* read_qname *)

\* (len & 0xC0) == 0xC0
IsPointer(len) == (len \div 64) % 4 = 3

\* (len as u16) ^ 0xC0: bits 6 and 7 flipped
Xor0xC0(len) == (3 - ((len \div 64) % 4)) * 64 + (len % 64)

\* (((len as u16) ^ 0xC0) << 8) | b2
PointerOffset(len, b2) == (Xor0xC0(len) * 256 + b2) % 65536

\* The locals of read_qname at the top of its loop.
qname_init(b, outstr) ==
    [st |-> "loop", err |-> "", b |-> b, pos |-> b.pos, jumped |-> FALSE,
     jumps_performed |-> 0, delim |-> <<>>, outstr |-> outstr]

\* After the loop: if !jumped { self.seek(pos)?; } Ok(())
qname_finish(s) ==
    [s EXCEPT !.st = "ok",
              !.b = IF ~s.jumped THEN seek(s.b, s.pos).b ELSE s.b]

\* A variant of jump_limit that already refuses the 5th pointer.
jump_limit_at_5(s) == s.jumps_performed >= max_jumps

\* if jumps_performed > max_jumps
jump_limit(s) == s.jumps_performed > max_jumps

\* A variant of qname_jump that seeks at every pointer, not only the first.
qname_jump_always_seeks(s, g) ==
    The({ IF g2.st # "ok"
          THEN [s EXCEPT !.st = "err", !.err = g2.err, !.b = g2.b]
          ELSE [s EXCEPT !.b = g2.b,
                         !.pos = PointerOffset(g.val, g2.val),
                         !.jumped = TRUE,
                         !.jumps_performed = @ + 1]
        : g2 \in {get(seek(g.b, s.pos + 2).b, s.pos + 1)} })

\* A variant of qname_jump that does not count the jumps it performs.
qname_jump_uncounted(s, g) ==
    The({ IF g2.st # "ok"
          THEN [s EXCEPT !.st = "err", !.err = g2.err, !.b = g2.b]
          ELSE [s EXCEPT !.b = g2.b,
                         !.pos = PointerOffset(g.val, g2.val),
                         !.jumped = TRUE]
        : g2 \in {get(IF ~s.jumped THEN seek(g.b, s.pos + 2).b ELSE g.b,
                      s.pos + 1)} })

\* The pointer branch of the loop: g is the result of self.get(pos), whose
\* value is len.
qname_jump(s, g) ==
    The({ IF g2.st # "ok"
          THEN [s EXCEPT !.st = "err", !.err = g2.err, !.b = g2.b]
          ELSE [s EXCEPT !.b = g2.b,
                         !.pos = PointerOffset(g.val, g2.val),
                         !.jumped = TRUE,
                         !.jumps_performed = @ + 1]
        : g2 \in {get(IF ~s.jumped THEN seek(g.b, s.pos + 2).b ELSE g.b,
                      s.pos + 1)} })

\* The label branch of the loop (and, on break, what follows the loop).
qname_label(s, g) ==
    IF g.val = 0
    THEN qname_finish([s EXCEPT !.b = g.b, !.pos = @ + 1])
    ELSE The({ IF gr.st # "ok"
               THEN [s EXCEPT !.st = "err", !.err = gr.err, !.b = gr.b,
                              !.pos = @ + 1, !.outstr = @ \o s.delim]
               ELSE [s EXCEPT !.b = gr.b,
                              !.outstr = @ \o s.delim
                                           \o to_lowercase(from_utf8_lossy(gr.val)),
                              !.delim = <<46>>,
                              !.pos = @ + 1 + g.val]
             : gr \in {get_range(g.b, s.pos + 1, g.val)} })

\* One iteration of the loop of read_qname.
qname_iter(s) ==
    IF jump_limit(s)
    THEN [s EXCEPT !.st = "err", !.err = JumpLimit]
    ELSE
    The({ IF g.st # "ok"
          THEN [s EXCEPT !.st = "err", !.err = g.err, !.b = g.b]
          ELSE IF IsPointer(g.val) THEN qname_jump(s, g) ELSE qname_label(s, g)
        : g \in {get(s.b, s.pos)} })

RECURSIVE qname_loop(_)
qname_loop(s) ==
    IF s.st # "loop" THEN s
    ELSE The({ qname_loop(s1) : s1 \in {qname_iter(s)} })

\* What read_qname returns: Ok(()) or the error, and the out-parameter
\* outstr as the call leaves it.
qname_result(s) ==
    [st |-> s.st, err |-> s.err, val |-> NoVal, b |-> s.b, outstr |-> s.outstr]

read_qname(b, outstr) ==
    The({ qname_result(s) : s \in {qname_loop(qname_init(b, outstr))} })

\* read_qname(..)?: the error of a failed read_qname, handed to the caller
Failed(r) == [st |-> r.st, err |-> r.err, val |-> NoVal, b |-> r.b]

RECURSIVE split(_, _)
\* qname.split('.'): the labels of a name
split(name, sep) ==
    IF \A i \in 1..Len(name) : name[i] # sep THEN <<name>>
    ELSE LET k == CHOOSE i \in 1..Len(name) :
                     name[i] = sep /\ \A j \in 1..(i - 1) : name[j] # sep
         IN  <<SubSeq(name, 1, k - 1)>> \o split(SubSeq(name, k + 1, Len(name)), sep)

RECURSIVE write_bytes(_, _)
\* for b in label.as_bytes() { self.write_u8(*b)?; }
write_bytes(b, bytes) ==
    IF bytes = <<>> THEN Ok(b, NoVal) ELSE
    LET r == write_u8(b, Head(bytes)) IN
    IF r.st # "ok" THEN r ELSE write_bytes(r.b, Tail(bytes))

RECURSIVE write_labels(_, _)
\* for label in qname.split('.') { ... }: len is label.len(), the number of
\* bytes of the label
write_labels(b, labels) ==
    IF labels = <<>> THEN Ok(b, NoVal) ELSE
    The({ IF Len(bytes) > MaxLabel THEN Bail(b, LabelTooLong) ELSE
    The({ IF r1.st # "ok" THEN r1 ELSE
    The({ IF r2.st # "ok" THEN r2 ELSE
          write_labels(r2.b, Tail(labels))
        : r2 \in {write_bytes(r1.b, bytes)} })
        : r1 \in {write_u8(b, Len(bytes))} })
        : bytes \in {as_bytes(Head(labels))} })

\* A variant of write_qname that leaves out the terminating zero byte.
write_qname_unterminated(b, qname) == write_labels(b, split(qname, 46))

write_qname(b, qname) ==
    The({ IF r.st # "ok" THEN r ELSE
          write_u8(r.b, 0)
        : r \in {write_labels(b, split(qname, 46))} })

----------------------------------------------------------------------------
(* header.rs *)

Opcodes == <<"QUERY", "IQUERY", "STATUS">>

RCodes == <<"NoError", "FormatError", "ServerFailure", "NameError",
            "NotImplemented", "Refused">>

\* A variant of Discriminant that numbers the variants from 1.
DiscriminantFromOne(names, v) == CHOOSE i \in 1..Len(names) : names[i] = v

\* The discriminant of an enum variant: `self.opcode as u8`
Discriminant(names, v) == (CHOOSE i \in 1..Len(names) : names[i] = v) - 1

\* impl From<u8> for Opcode
OpcodeFrom(b, byte) ==
    IF byte <= 2 THEN Ok(b, Opcodes[byte + 1]) ELSE Panic(b, "Invalid opcode")

\* impl From<u8> for RCode
RCodeFrom(b, byte) ==
    IF byte <= 5 THEN Ok(b, RCodes[byte + 1]) ELSE Panic(b, "Invalid rcode")

\* impl Default for Header
HeaderDefault ==
    [id |-> 1234, is_reply |-> TRUE, opcode |-> "QUERY",
     authoritative |-> FALSE, truncation |-> FALSE,
     recursion_desired |-> FALSE, recursion_available |-> FALSE,
     rcode |-> "NoError", question_count |-> 0, answer_count |-> 0,
     authority_count |-> 0, additional_count |-> 0]

\* (x & (1 << k)) > 0
Bit(x, k) == (x \div (2 ^ k)) % 2 = 1

\* b as u8, for a bool
AsU8(flag) == IF flag THEN 1 ELSE 0

\* Header::read, on the header `self`
HeaderRead(self, b) ==
    The({ IF r1.st # "ok" THEN r1 ELSE
    The({ IF r2.st # "ok" THEN r2 ELSE
          LET flags == r2.val
              a == flags \div 256
              lo == flags % 256 IN
    The({ IF op.st # "ok" THEN op ELSE
    The({ IF rc.st # "ok" THEN rc ELSE
    The({ IF r3.st # "ok" THEN r3 ELSE
    The({ IF r4.st # "ok" THEN r4 ELSE
    The({ IF r5.st # "ok" THEN r5 ELSE
    The({ IF r6.st # "ok" THEN r6 ELSE
          Ok(r6.b, [self EXCEPT
                      !.id = r1.val,
                      !.recursion_desired = Bit(a, 0),
                      !.truncation = Bit(a, 1),
                      !.authoritative = Bit(a, 2),
                      !.opcode = op.val,
                      !.is_reply = Bit(a, 7),
                      !.rcode = rc.val,
                      !.recursion_available = Bit(lo, 7),
                      !.question_count = r3.val,
                      !.answer_count = r4.val,
                      !.authority_count = r5.val,
                      !.additional_count = r6.val])
        : r6 \in {read_u16(r5.b)} })
        : r5 \in {read_u16(r4.b)} })
        : r4 \in {read_u16(r3.b)} })
        : r3 \in {read_u16(r2.b)} })
        : rc \in {RCodeFrom(r2.b, lo % 16)} })
        : op \in {OpcodeFrom(r2.b, (a \div 8) % 16)} })
        : r2 \in {read_u16(r1.b)} })
        : r1 \in {read_u16(b)} })

\* Header::write
HeaderWrite(self, b) ==
    The({ IF r1.st # "ok" THEN r1 ELSE
    The({ IF r2.st # "ok" THEN r2 ELSE
    The({ IF r3.st # "ok" THEN r3 ELSE
    The({ IF r4.st # "ok" THEN r4 ELSE
    The({ IF r5.st # "ok" THEN r5 ELSE
    The({ IF r6.st # "ok" THEN r6 ELSE
          write_u16(r6.b, self.additional_count)
        : r6 \in {write_u16(r5.b, self.authority_count)} })
        : r5 \in {write_u16(r4.b, self.answer_count)} })
        : r4 \in {write_u16(r3.b, self.question_count)} })
        : r3 \in {write_u8(r2.b, Discriminant(RCodes, self.rcode)
                              + AsU8(self.recursion_available) * 128)} })
        : r2 \in {write_u8(r1.b, AsU8(self.recursion_desired)
                              + AsU8(self.truncation) * 2
                              + AsU8(self.authoritative) * 4
                              + Discriminant(Opcodes, self.opcode) * 8
                              + AsU8(self.is_reply) * 128)} })
        : r1 \in {write_u16(b, self.id)} })

----------------------------------------------------------------------------
(* question.rs *)

\* enum QType: the discriminants
QTypeCodes == (1..16) \cup (252..255)

\* enum QClass: the discriminants
QClassCodes == {1, 2, 3, 4, 255}

\* QType::A = 1
QTypeA == 1

\* QClass::IN = 1
QClassIN == 1

\* impl From<u16> for QType; an enum value is shown by its discriminant
QTypeFrom(b, byte) ==
    IF byte \in QTypeCodes THEN Ok(b, byte) ELSE Panic(b, "Invalid qtype")

\* impl From<u16> for QClass
QClassFrom(b, byte) ==
    IF byte \in QClassCodes THEN Ok(b, byte) ELSE Panic(b, "Invalid qclass")

\* impl Default for Question
QuestionDefault == [name |-> <<>>, qtype |-> QTypeA, qclass |-> QClassIN]

\* Question::read, on the question `self`
QuestionRead(self, b) ==
    The({ IF r1.st # "ok" THEN Failed(r1) ELSE
    The({ IF r2.st # "ok" THEN r2 ELSE
    The({ IF t.st # "ok" THEN t ELSE
    The({ IF r3.st # "ok" THEN r3 ELSE
    The({ IF c.st # "ok" THEN c ELSE
          Ok(r3.b, [name |-> r1.outstr, qtype |-> t.val, qclass |-> c.val])
        : c \in {QClassFrom(r3.b, r3.val)} })
        : r3 \in {read_u16(r2.b)} })
        : t \in {QTypeFrom(r2.b, r2.val)} })
        : r2 \in {read_u16(r1.b)} })
        : r1 \in {read_qname(b, self.name)} })

----------------------------------------------------------------------------
(* record.rs *)

\* Record::read
RecordRead(b) ==
    The({ IF r1.st # "ok" THEN Failed(r1) ELSE
          LET domain == r1.outstr IN
    The({ IF r2.st # "ok" THEN r2 ELSE
          LET qtype_num == r2.val IN
    The({ IF t.st # "ok" THEN t ELSE
    The({ IF r3.st # "ok" THEN r3 ELSE
    The({ IF r4.st # "ok" THEN r4 ELSE
          LET ttl == r4.val IN
    The({ IF r5.st # "ok" THEN r5 ELSE
          LET data_len == r5.val IN
          IF t.val = QTypeA
          THEN The({ IF r6.st # "ok" THEN r6 ELSE
                     LET raw_addr == r6.val IN
                     Ok(r6.b, [kind |-> "A", domain |-> domain,
                               addr |-> <<Byte(raw_addr, 0), Byte(raw_addr, 1),
                                          Byte(raw_addr, 2), Byte(raw_addr, 3)>>,
                               ttl |-> ttl])
                   : r6 \in {read_u32(r5.b)} })
          ELSE The({ Ok(r6.b, [kind |-> "Unknown", domain |-> domain,
                               qtype |-> qtype_num, data_len |-> data_len,
                               ttl |-> ttl])
                   : r6 \in {step(r5.b, data_len)} })
        : r5 \in {read_u16(r4.b)} })
        : r4 \in {read_u32(r3.b)} })
        : r3 \in {read_u16(r2.b)} })
        : t \in {QTypeFrom(r2.b, qtype_num)} })
        : r2 \in {read_u16(r1.b)} })
        : r1 \in {read_qname(b, <<>>)} })

\* Record::write: Ok(buffer.pos() - start_pos)
RecordWrite(self, b) ==
    LET start_pos == b.pos IN
    IF self.kind # "A" THEN Ok(b, b.pos - start_pos) ELSE
    The({ IF r1.st # "ok" THEN r1 ELSE
    The({ IF r2.st # "ok" THEN r2 ELSE
    The({ IF r3.st # "ok" THEN r3 ELSE
    The({ IF r4.st # "ok" THEN r4 ELSE
    The({ IF r5.st # "ok" THEN r5 ELSE
    The({ IF r6.st # "ok" THEN r6 ELSE
    The({ IF r7.st # "ok" THEN r7 ELSE
    The({ IF r8.st # "ok" THEN r8 ELSE
    The({ IF r9.st # "ok" THEN r9 ELSE
          Ok(r9.b, r9.b.pos - start_pos)
        : r9 \in {write_u8(r8.b, self.addr[4])} })
        : r8 \in {write_u8(r7.b, self.addr[3])} })
        : r7 \in {write_u8(r6.b, self.addr[2])} })
        : r6 \in {write_u8(r5.b, self.addr[1])} })
        : r5 \in {write_u16(r4.b, 4)} })
        : r4 \in {write_u32(r3.b, self.ttl)} })
        : r3 \in {write_u16(r2.b, 1)} })
        : r2 \in {write_u16(r1.b, QTypeA)} })
        : r1 \in {write_qname(b, self.domain)} })

----------------------------------------------------------------------------
(* packet.rs *)

\* impl Default for Packet
PacketDefault == [header |-> HeaderDefault, questions |-> <<>>, answers |-> <<>>]

RECURSIVE read_questions(_, _, _)
\* for _ in 0..result.header.question_count { ... }
read_questions(b, n, acc) ==
    IF n = 0 THEN Ok(b, acc) ELSE
    The({ IF r.st # "ok" THEN r ELSE
          read_questions(r.b, n - 1, Append(acc, r.val))
        : r \in {QuestionRead(QuestionDefault, b)} })

RECURSIVE read_answers_but_last(_, _, _)
\* A variant of read_answers whose loop stops one record early.
read_answers_but_last(b, n, acc) ==
    IF n <= 1 THEN Ok(b, acc) ELSE
    The({ IF r.st # "ok" THEN r ELSE
          read_answers_but_last(r.b, n - 1, Append(acc, r.val))
        : r \in {RecordRead(b)} })

RECURSIVE read_answers(_, _, _)
\* for _ in 0..result.header.answer_count { ... }
read_answers(b, n, acc) ==
    IF n = 0 THEN Ok(b, acc) ELSE
    The({ IF r.st # "ok" THEN r ELSE
          read_answers(r.b, n - 1, Append(acc, r.val))
        : r \in {RecordRead(b)} })

\* Packet::from_buffer
from_buffer(b) ==
    The({ IF h.st # "ok" THEN h ELSE
    The({ IF qs.st # "ok" THEN qs ELSE
    The({ IF as.st # "ok" THEN as ELSE
          Ok(as.b, [header |-> h.val, questions |-> qs.val, answers |-> as.val])
        : as \in {read_answers(qs.b, h.val.answer_count, PacketDefault.answers)} })
        : qs \in {read_questions(h.b, h.val.question_count, PacketDefault.questions)} })
        : h \in {HeaderRead(PacketDefault.header, b)} })

RECURSIVE write_questions(_, _)
\* Message encode, the questions in list order (from the specification:
\* "write the domain name, then the numeric type, then the numeric class")
write_questions(b, qs) ==
    IF qs = <<>> THEN Ok(b, NoVal) ELSE
    The({ IF r1.st # "ok" THEN r1 ELSE
    The({ IF r2.st # "ok" THEN r2 ELSE
    The({ IF r3.st # "ok" THEN r3 ELSE
          write_questions(r3.b, Tail(qs))
        : r3 \in {write_u16(r2.b, Head(qs).qclass)} })
        : r2 \in {write_u16(r1.b, Head(qs).qtype)} })
        : r1 \in {write_qname(b, Head(qs).name)} })

RECURSIVE write_answers(_, _)
\* Message encode, the answers in list order, each by Record::write
write_answers(b, as) ==
    IF as = <<>> THEN Ok(b, NoVal) ELSE
    The({ IF r.st # "ok" THEN r ELSE
          write_answers(r.b, Tail(as))
        : r \in {RecordWrite(Head(as), b)} })

\* Message encode (from the specification): the counts are set from the list
\* lengths, authority and additional forced to 0
encode_counts(m) ==
    [m EXCEPT !.header.question_count = Len(m.questions),
              !.header.answer_count = Len(m.answers),
              !.header.authority_count = 0,
              !.header.additional_count = 0]

\* Message encode (from the specification): header, questions, answers
encode(m, b) ==
    The({
    The({ IF r1.st # "ok" THEN r1 ELSE
    The({ IF r2.st # "ok" THEN r2 ELSE
    The({ IF r3.st # "ok" THEN r3 ELSE
          Ok(r3.b, m1)
        : r3 \in {write_answers(r2.b, m1.answers)} })
        : r2 \in {write_questions(r1.b, m1.questions)} })
        : r1 \in {HeaderWrite(m1.header, b)} })
        : m1 \in {encode_counts(m)} })

----------------------------------------------------------------------------
(* The buffers the calls are made on.  A buffer is filled as the tests fill *)
(* it: buffer.buf[..bytes.len()].copy_from_slice(&bytes).                   *)

\* copy bytes into buf at offset off
Put(f, off, bytes) ==
    [i \in DOMAIN f |->
        IF i >= off /\ i < off + Len(bytes) THEN bytes[i - off + 1] ELSE f[i]]

\* "codecrafters" and "io" as length-prefixed labels, zero-terminated
CodecraftersIo ==
    <<12, 99, 111, 100, 101, 99, 114, 97, 102, 116, 101, 114, 115,
      2, 105, 111, 0>>

\* the bytes of tests::packet_from_bytes
TestPacket ==
    <<4, 210, 128, 0, 0, 1, 0, 1, 0, 0, 0, 0>> \o CodecraftersIo
    \o <<0, 1, 0, 1>> \o CodecraftersIo
    \o <<0, 1, 0, 1, 0, 0, 0, 60, 0, 4, 8, 8, 8, 8>>

\* A second message at 64, compressed against the first: two questions
\* (a pointer; "WWW" then a pointer), an NS record of 3 data bytes, an A
\* record.  Its pointers are offsets from the start of the buffer.
CompressedPacket ==
    <<1, 2, 133, 131, 0, 2, 0, 2, 0, 0, 0, 0>>
    \o <<192, 12, 0, 1, 0, 1>>
    \o <<3, 87, 87, 87, 192, 12, 0, 255, 0, 255>>
    \o <<192, 12, 0, 2, 0, 1, 0, 0, 1, 0, 0, 3, 9, 9, 9>>
    \o <<192, 82, 0, 1, 0, 1, 0, 0, 0, 60, 0, 4, 1, 2, 3, 4>>

\* Names, with pointers whose offsets need the low 6 bits of the first
\* byte: "f.isi.arpa" (256), a pointer to it (268), "FOO" then a pointer to
\* "isi.arpa" (270), a chain of pointers 276 -> 268, 278 -> 276, ... 286 ->
\* 284 (a name at 282 follows 5 pointers, at 284 6 pointers), a pointer to
\* itself (288), two pointers at each other (290, 292), "A" then a pointer
\* into the chain at 282 (294), "B" then one at 280 (298), a forward pointer
\* to "XY" at 320 (302), a pointer to offset 512 (304), a length byte of 64
\* (400), a label whose last byte is the buffer's last byte (509) and looks
\* like a pointer (511).
NameBytes ==
    <<1, 102, 3, 105, 115, 105, 4, 97, 114, 112, 97, 0>>
    \o <<193, 0, 3, 70, 79, 79, 193, 2>>
    \o <<193, 12, 193, 20, 193, 22, 193, 24, 193, 26, 193, 28>>
    \o <<193, 32, 193, 36, 193, 34>>
    \o <<1, 65, 193, 26, 1, 66, 193, 24>>
    \o <<193, 64, 194, 0>>

\* Malformed input: a header with opcode 3 (130), a header with rcode 6
\* (142), a header announcing one question whose type is 0 (154, 166), a
\* question of class 9 (172), a record of type 28 (178), a record of type
\* CNAME declaring 65535 data bytes (190), an A record declaring 6 data
\* bytes followed by an A record (202, 220), a header whose second flags
\* byte has bit 5 set (324), a header ending at 512 that announces one
\* question (500).  At 340 a label that is not ASCII: "A", U+00C9, U+03A3,
\* the byte 0xFF.  At 350 a name of three labels: U+0295 (not Cased) then
\* U+03A3; "A", U+0897 (Case_Ignorable), U+03A3; U+1C89 (lowercase U+1C8A).
Received ==
    Put(Put(Put(Put(Put(Put(Put(Put(Put(Put(Put(Put(Put(Put(Put(Put(Put(Put(new.buf,
        0, TestPacket),
        64, CompressedPacket),
        130, <<0, 1, 24, 0, 0, 0, 0, 0, 0, 0, 0, 0>>),
        142, <<0, 1, 0, 6, 0, 0, 0, 0, 0, 0, 0, 0>>),
        154, <<0, 1, 0, 0, 0, 1, 0, 0, 0, 0, 0, 0, 192, 12, 0, 0, 0, 1>>),
        172, <<192, 12, 0, 1, 0, 9>>),
        178, <<192, 12, 0, 28, 0, 1, 0, 0, 0, 4, 0, 0>>),
        190, <<192, 12, 0, 5, 0, 1, 0, 0, 0, 0, 255, 255>>),
        202, <<192, 12, 0, 1, 0, 1, 0, 0, 0, 60, 0, 6, 1, 2, 3, 4, 5, 6>>),
        220, <<192, 12, 0, 1, 0, 1, 0, 0, 0, 60, 0, 4, 9, 9, 9, 9>>),
        324, <<171, 205, 1, 32, 0, 0, 0, 0, 0, 0, 0, 0>>),
        340, <<6, 65, 195, 137, 206, 163, 255, 0>>),
        350, <<4, 202, 149, 206, 163, 6, 65, 224, 162, 151, 206, 163,
               3, 225, 178, 137, 0>>),
        256, NameBytes),
        320, <<2, 88, 89, 0>>),
        400, <<64>>),
        500, <<0, 1, 1, 0, 0, 1, 0, 0, 0>>),
        509, <<2, 120, 192>>)

\* a buffer is fresh, or holds bytes received
Buffers == {new.buf, Received}

\* the offsets the driver seeks to
SeekTargets ==
    {0, 12, 33, 64, 130, 142, 154, 172, 178, 190, 202, 324, 340, 350, 500}
    \cup {256, 268, 270, 282, 284, 288, 290, 294, 298, 302, 304, 400}
    \cup {509, 511, 512, 600}

----------------------------------------------------------------------------
(* The driver: calls made one after another on one buffer. *)

Idle == [st |-> "idle"]

\* the BytePacketBuffer as a call finds it
Self == [buf |-> buf, pos |-> pos, hi |-> -1, seeks |-> 0]

\* what a finished call leaves to look at; out is the out-parameter of
\* read_qname
Done(op, arg, b0, r) ==
    [op |-> op, arg |-> arg, st |-> r.st, err |-> r.err, val |-> r.val,
     out |-> IF "outstr" \in DOMAIN r THEN r.outstr ELSE NoVal,
     pos0 |-> b0.pos, wrote |-> r.b.buf # b0.buf, hi |-> r.b.hi,
     seeks |-> r.b.seeks]

\* a panic ends the program: no call follows it
CanCall == q.st = "idle" /\ nops < MaxOps /\ call.st # "panic"

Apply(op, arg, r) ==
    /\ CanCall
    /\ buf' = r.b.buf
    /\ pos' = r.b.pos
    /\ call' = Done(op, arg, Self, r)
    /\ nops' = nops + 1
    /\ UNCHANGED q

Init ==
    /\ buf \in Buffers
    /\ pos = 0
    /\ call = [op |-> "new", arg |-> NoVal, st |-> "ok", err |-> "",
               val |-> NoVal, out |-> NoVal, pos0 |-> 0, wrote |-> FALSE,
               hi |-> -1,
               seeks |-> 0]
    /\ q = Idle
    /\ nops = 0

Seek ==
    \E p \in SeekTargets : \E r \in {seek(Self, p)} : Apply("seek", p, r)

Step ==
    \E n \in {1, 700} : \E r \in {step(Self, n)} : Apply("step", n, r)

Read == \E r \in {read(Self)} : Apply("read", NoVal, r)

Get ==
    \E p \in {511, 512} : \E r \in {get(Self, p)} : Apply("get", p, r)

GetRange ==
    \E a \in {<<508, 3>>, <<508, 4>>, <<512, 0>>} :
        \E r \in {get_range(Self, a[1], a[2])} : Apply("get_range", a, r)

ReadU16 == \E r \in {read_u16(Self)} : Apply("read_u16", NoVal, r)

ReadU32 == \E r \in {read_u32(Self)} : Apply("read_u32", NoVal, r)

Write ==
    \E v \in {255} : \E r \in {write(Self, v)} : Apply("write", v, r)

WriteU8 ==
    \E v \in {7} : \E r \in {write_u8(Self, v)} : Apply("write_u8", v, r)

WriteU16 ==
    \E v \in {4660} : \E r \in {write_u16(Self, v)} : Apply("write_u16", v, r)

WriteU32 ==
    \E v \in {U32(18, 52, 86, 120)} : \E r \in {write_u32(Self, v)} : Apply("write_u32", v, r)

\* the names written
Www == <<119, 119, 119>>

AB == <<97, 46, 98>>

UpperAB == <<65, 46, 98>>

WwwGoogleCom ==
    <<119, 119, 119, 46, 103, 111, 111, 103, 108, 101, 46, 99, 111, 109>>

\* one label of 64 bytes
Label64 == [i \in 1..(MaxLabel + 1) |-> 97]

Names == {<<>>, Www, WwwGoogleCom, Label64}

WriteQname ==
    \E name \in Names : \E r \in {write_qname(Self, name)} : Apply("write_qname", name, r)

\* a header with every flag set, the last variant of each enum
FullHeader ==
    [id |-> 65535, is_reply |-> TRUE, opcode |-> "STATUS",
     authoritative |-> TRUE, truncation |-> TRUE,
     recursion_desired |-> TRUE, recursion_available |-> TRUE,
     rcode |-> "Refused", question_count |-> 1, answer_count |-> 2,
     authority_count |-> 3, additional_count |-> 4]

Headers == {HeaderDefault, FullHeader}

ReadHeader == \E r \in {HeaderRead(HeaderDefault, Self)} : Apply("Header::read", NoVal, r)

WriteHeader ==
    \E h \in Headers : \E r \in {HeaderWrite(h, Self)} : Apply("Header::write", h, r)

ReadQuestion == \E r \in {QuestionRead(QuestionDefault, Self)} : Apply("Question::read", NoVal, r)

ARecord(domain, ttl) ==
    [kind |-> "A", domain |-> domain, addr |-> <<8, 8, 8, 8>>, ttl |-> ttl]

UnknownRecord(domain) ==
    [kind |-> "Unknown", domain |-> domain, qtype |-> 2, data_len |-> 3,
     ttl |-> U32(0, 0, 0, 60)]

Records ==
    {ARecord(Www, U32(255, 255, 255, 255)), UnknownRecord(AB)}

ReadRecord == \E r \in {RecordRead(Self)} : Apply("Record::read", NoVal, r)

WriteRecord ==
    \E r0 \in Records : \E r \in {RecordWrite(r0, Self)} : Apply("Record::write", r0, r)

FromBuffer == \E r \in {from_buffer(Self)} : Apply("Packet::from_buffer", NoVal, r)

AQuestion(name) == [name |-> name, qtype |-> QTypeA, qclass |-> QClassIN]

\* the messages encoded
Messages ==
    {PacketDefault,
     [header |-> HeaderDefault, questions |-> <<AQuestion(AB)>>,
      answers |-> <<ARecord(AB, U32(0, 0, 0, 60))>>],
     [header |-> FullHeader,
      questions |-> <<AQuestion(WwwGoogleCom), [name |-> Www, qtype |-> 255, qclass |-> 255]>>,
      answers |-> <<ARecord(WwwGoogleCom, U32(255, 255, 255, 255)),
                    ARecord(Www, U32(0, 0, 1, 0))>>],
     [header |-> HeaderDefault, questions |-> <<AQuestion(UpperAB)>>,
      answers |-> <<>>],
     [header |-> HeaderDefault, questions |-> <<>>,
      answers |-> <<ARecord(UpperAB, U32(0, 0, 0, 60))>>],
     [header |-> HeaderDefault, questions |-> <<QuestionDefault>>,
      answers |-> <<>>],
     [header |-> HeaderDefault, questions |-> <<>>,
      answers |-> <<ARecord(<<>>, U32(0, 0, 0, 60))>>],
     [header |-> HeaderDefault, questions |-> <<AQuestion(Label64)>>,
      answers |-> <<>>],
     [header |-> HeaderDefault, questions |-> <<>>,
      answers |-> [i \in 1..17 |-> ARecord(WwwGoogleCom, U32(0, 0, 0, 60))]],
     [header |-> HeaderDefault, questions |-> <<AQuestion(AB)>>,
      answers |-> <<UnknownRecord(AB)>>]}

\* a buffer as BytePacketBuffer::new leaves it, no call made on it yet
Fresh == call.op = "new" /\ buf = new.buf /\ pos = new.pos

\* encode a message into a fresh buffer, seek to 0, decode it
roundtrip(m) ==
    The({ IF e.st # "ok" THEN [e EXCEPT !.val = [encoded |-> FALSE]] ELSE
    The({ [d EXCEPT !.val = [encoded |-> TRUE, sent |-> e.val, got |-> d.val]]
        : d \in {from_buffer(seek(e.b, 0).b)} })
        : e \in {encode(m, new)} })

RoundTrip ==
    /\ CanCall
    /\ Fresh
    /\ \E m \in Messages : \E r \in {roundtrip(m)} :
          /\ buf' = r.b.buf
          /\ pos' = r.b.pos
          /\ call' = Done("roundtrip", m, new, r)
          /\ nops' = nops + 1
          /\ UNCHANGED q

\* read_qname is run one loop iteration at a time
ReadQnameCall ==
    /\ CanCall
    /\ \E outstr \in {<<>>, <<120>>} :
          /\ q' = qname_init(Self, outstr)
          /\ call' = [call EXCEPT !.op = "read_qname", !.arg = outstr,
                                  !.st = "running", !.val = NoVal,
                                  !.out = outstr, !.pos0 = pos]
    /\ UNCHANGED <<buf, pos, nops>>

ReadQnameStep ==
    /\ q.st = "loop"
    /\ \E s \in {qname_iter(q)} :
       /\ pos' = s.b.pos
       /\ IF s.st = "loop"
          THEN /\ q' = s
               /\ UNCHANGED <<call, nops>>
          ELSE /\ q' = Idle
               /\ call' = Done("read_qname", call.arg,
                               [Self EXCEPT !.pos = call.pos0], qname_result(s))
               /\ nops' = nops + 1
    /\ UNCHANGED buf

Next ==
    \/ Seek
    \/ Step
    \/ Read
    \/ Get
    \/ GetRange
    \/ ReadU16
    \/ ReadU32
    \/ Write
    \/ WriteU8
    \/ WriteU16
    \/ WriteU32
    \/ WriteQname
    \/ ReadHeader
    \/ WriteHeader
    \/ ReadQuestion
    \/ ReadRecord
    \/ WriteRecord
    \/ FromBuffer
    \/ RoundTrip
    \/ ReadQnameCall
    \/ ReadQnameStep

Spec == Init /\ [][Next]_vars

\* the first call: seek to any offset of the buffer, its end and one past it
SeekAnywhere ==
    /\ nops = 0
    /\ \E p \in 0..(Capacity + 1) : \E r \in {seek(Self, p)} : Apply("seek", p, r)

\* read_qname alone: a seek to any offset, then names read one after another.
\* A call that has started runs on: the loop's next iteration is always taken
\* (weak fairness).
NextQname ==
    \/ SeekAnywhere
    \/ ReadQnameCall
    \/ ReadQnameStep

QnameSpec == Init /\ [][NextQname]_vars /\ WF_vars(ReadQnameStep)

\* a write is the first call on the buffer or follows the seek
AfterSeek == call.op \in {"new", "seek"}

\* the 16-bit values written: 0x0000, 0x00FF, 0x0100, 0x1234, 0x8000, 0xFFFF
Words16 == {0, 255, 256, 4660, 32768, 65535}

\* the 32-bit values written
Words32 ==
    {U32(0, 0, 0, 0), U32(18, 52, 86, 120), U32(128, 0, 0, 1),
     U32(0, 0, 1, 0), U32(255, 255, 255, 255)}

\* one label of 63 bytes
Label63 == [i \in 1..MaxLabel |-> 97]

\* n times U+00E9, a char of two bytes
Accents(n) == [i \in 1..n |-> 233]

\* the names written: "", "www", "www.google.com", "a.b", "A.b", "a.", ".",
\* "a..b", a label of 63 bytes, of 64 bytes, "a." then 64 bytes, 63 bytes
\* then ".b"; U+00C9 then ".b", "a" U+03A3 ".b", a label of 32 chars that
\* is 64 bytes, a label of 32 chars that is 63 bytes
NamesAnywhere ==
    {<<>>, Www, WwwGoogleCom, AB, UpperAB, <<97, 46>>, <<46>>,
     <<97, 46, 46, 98>>, Label63, Label64, <<97, 46>> \o Label64,
     Label63 \o <<46, 98>>, <<201, 46, 98>>, <<97, SIGMA, 46, 98>>,
     Accents(32), Accents(31) \o <<97>>}

WriteU16Any ==
    /\ AfterSeek
    /\ \E v \in Words16 : \E r \in {write_u16(Self, v)} : Apply("write_u16", v, r)

WriteU32Any ==
    /\ AfterSeek
    /\ \E v \in Words32 : \E r \in {write_u32(Self, v)} : Apply("write_u32", v, r)

WriteQnameAny ==
    /\ AfterSeek
    /\ \E name \in NamesAnywhere :
          \E r \in {write_qname(Self, name)} : Apply("write_qname", name, r)

\* the writes alone: a seek to any offset, then one write
NextWrite ==
    \/ SeekAnywhere
    \/ WriteU16Any
    \/ WriteU32Any
    \/ WriteQnameAny

WriteSpec == Init /\ [][NextWrite]_vars

----------------------------------------------------------------------------
(* Reference definitions, read off the bytes of buf. *)

\* the buffer with its cursor at p
BufferAt(p) == [buf |-> buf, pos |-> p, hi |-> -1, seeks |-> 0]

RefAt(i) == IF i \in DOMAIN buf THEN buf[i] ELSE 0

\* a letter A-Z in lower case
RefLower(c) == IF c \in 65..90 THEN c + 32 ELSE c

\* A string in lower case: an ASCII string char by char; any other string
\* as str::to_lowercase gives it.
RefLowerStr(s) ==
    IF IsAscii(s) THEN [i \in 1..Len(s) |-> RefLower(s[i])] ELSE to_lowercase(s)

RECURSIVE RefLabels(_, _)
\* The labels of the name at offset p, lowercased, following at most n
\* pointers.  A pointer is a byte >= 192; its offset is the low 6 bits of
\* that byte followed by the next byte.
RefLabels(p, n) ==
    IF p >= Capacity \/ n < 0 THEN <<>>
    ELSE LET len == RefAt(p) IN
         IF len >= 192
         THEN RefLabels((len - 192) * 256 + RefAt(p + 1), n - 1)
         ELSE IF len = 0 THEN <<>>
         ELSE <<RefLowerStr(from_utf8_lossy([i \in 1..len |-> RefAt(p + i)]))>>
              \o RefLabels(p + 1 + len, n)

RECURSIVE RefJoin(_)
\* labels joined by '.'
RefJoin(labels) ==
    IF labels = <<>> THEN <<>>
    ELSE IF Len(labels) = 1 THEN labels[1]
    ELSE labels[1] \o <<46>> \o RefJoin(Tail(labels))

RECURSIVE RefEnd(_)
\* The offset just past the name at p as it is laid out in place: past its
\* terminating zero, or past its first pointer.
RefEnd(p) ==
    IF p >= Capacity THEN p
    ELSE LET len == RefAt(p) IN
         IF len >= 192 THEN p + 2
         ELSE IF len = 0 THEN p + 1
         ELSE RefEnd(p + 1 + len)

RECURSIVE RefJumps(_, _)
\* The number of pointers followed when the name at p is decoded, counted up
\* to n; a pointer or label that runs off the buffer ends the decoding.
RefJumps(p, n) ==
    IF n = 0 \/ p >= Capacity THEN 0
    ELSE LET len == RefAt(p) IN
         IF len >= 192
         THEN IF p + 1 >= Capacity THEN 0
              ELSE 1 + RefJumps((len - 192) * 256 + RefAt(p + 1), n - 1)
         ELSE IF len = 0 \/ p + 1 + len >= Capacity THEN 0
         ELSE RefJumps(p + 1 + len, n)

RECURSIVE EntryEnd(_, _, _)
\* The cursor after the header and the first k entries (nq questions, then
\* records) of the packet at p, each entry decoded where the previous ended.
EntryEnd(p, nq, k) ==
    IF k = 0 THEN HeaderRead(HeaderDefault, BufferAt(p)).b.pos
    ELSE IF k <= nq
         THEN QuestionRead(QuestionDefault, BufferAt(EntryEnd(p, nq, k - 1))).b.pos
         ELSE RecordRead(BufferAt(EntryEnd(p, nq, k - 1))).b.pos

Primitives ==
    {"read", "read_u16", "read_u32", "write", "write_u8", "write_u16", "write_u32"}

Width(op) ==
    CASE op \in {"read", "write", "write_u8"} -> 1
      [] op \in {"read_u16", "write_u16"} -> 2
      [] op \in {"read_u32", "write_u32"} -> 4

\* the calls that move the cursor only by reading or writing a byte
Accessors ==
    Primitives \cup {"get", "get_range", "write_qname", "Header::read",
                     "Header::write", "Record::write"}

Decoders == {"Header::read", "Question::read", "Packet::from_buffer"}

LowerCase(name) == \A i \in 1..Len(name) : name[i] \notin 65..90

NamesOf(m) ==
    {m.questions[i].name : i \in 1..Len(m.questions)}
    \cup {m.answers[i].domain : i \in 1..Len(m.answers)}

OnlyA(m) == \A i \in 1..Len(m.answers) : m.answers[i].kind = "A"

----------------------------------------------------------------------------
(* The claims. *)

\* C1: when Packet::from_buffer returns a packet, it holds the header decoded
\* at the start, exactly question_count questions and answer_count answers,
\* the i-th entry being the one decoded where the (i-1)-th ended, and the
\* cursor is left after the last entry.
C1_FromBufferCountsAndOrder ==
    (call.op = "Packet::from_buffer" /\ call.st = "ok") =>
        LET m == call.val
            nq == m.header.question_count
            na == m.header.answer_count
        IN  /\ m.header = HeaderRead(HeaderDefault, BufferAt(call.pos0)).val
            /\ Len(m.questions) = nq
            /\ Len(m.answers) = na
            /\ \A i \in 1..Len(m.questions) :
                  m.questions[i] =
                      QuestionRead(QuestionDefault,
                                   BufferAt(EntryEnd(call.pos0, nq, i - 1))).val
            /\ \A j \in 1..Len(m.answers) :
                  m.answers[j] =
                      RecordRead(BufferAt(EntryEnd(call.pos0, nq, nq + j - 1))).val
            /\ pos = EntryEnd(call.pos0, nq, nq + na)

\* a packet of two questions and two answers has been decoded
C1_Witness ==
    /\ call.op = "Packet::from_buffer"
    /\ call.st = "ok"
    /\ call.val.header.question_count = 2
    /\ call.val.header.answer_count = 2
    /\ call.val.answers[2].kind = "A"

\* C2: a message with only A answers (its names in lower case, its encoding
\* successful) decodes, after encode into a fresh buffer, to the message that
\* was encoded, counts set from the list lengths.
C2_RoundTrip ==
    (/\ call.op = "roundtrip"
     /\ OnlyA(call.arg)
     /\ \A n \in NamesOf(call.arg) : LowerCase(n)
     /\ call.val.encoded) =>
        (call.st = "ok" /\ call.val.got = call.val.sent)

\* C3: the name read_qname returns is what it was given followed by the
\* reference decoding of the name at the cursor.
C3_ReadQnameIsReference ==
    (call.op = "read_qname" /\ call.st = "ok") =>
        call.out = call.arg \o RefJoin(RefLabels(call.pos0, max_jumps))

\* "FOO" followed by a pointer to "isi.arpa" has been read as foo.isi.arpa
C3_Witness ==
    /\ call.op = "read_qname"
    /\ call.st = "ok"
    /\ call.pos0 = 270
    /\ call.out = <<102, 111, 111, 46, 105, 115, 105, 46, 97, 114, 112, 97>>

\* C4: after a successful read_qname the cursor is just past the terminating
\* zero if no pointer was followed, and just past the first pointer if one
\* was; the call seeks at most once.
C4_CursorAfterReadQname ==
    /\ (call.op = "read_qname" /\ call.st = "ok") =>
          (pos = RefEnd(call.pos0) /\ call.seeks <= 1)
    /\ q.st = "loop" => q.b.seeks <= 1

\* "B" and a pointer followed by four more pointers has been read: the
\* cursor is just past the first pointer
C4_Witness ==
    /\ call.op = "read_qname"
    /\ call.st = "ok"
    /\ call.pos0 = 298
    /\ pos = 302
    /\ call.seeks = 1

\* C5: read_qname fails with the jump-limit error exactly when the decoding
\* of the name follows more than 5 pointers.
C5_JumpLimitExactlyAbove5 ==
    (call.op = "read_qname" /\ call.st # "running") =>
        ((call.st = "err" /\ call.err = JumpLimit)
            <=> RefJumps(call.pos0, max_jumps + 1) > max_jumps)

\* a chain of 6 pointers has been refused
C5_Witness ==
    /\ call.op = "read_qname"
    /\ call.pos0 = 284
    /\ call.st = "err"
    /\ call.err = JumpLimit

\* C6: a call of read_qname that has started returns.
C6_ReadQnameReturns == (q.st = "loop") ~> (q.st = "idle")

\* read_qname has returned from a pointer that points at itself
C6_Witness ==
    /\ call.op = "read_qname"
    /\ call.pos0 = 288
    /\ call.st = "err"
    /\ q.st = "idle"

\* C7: a primitive read or write either succeeds and advances the cursor by
\* its width, or fails and leaves the contents of the buffer unchanged.
C7_PrimitiveAllOrNothing ==
    call.op \in Primitives =>
        \/ call.st = "ok" /\ pos = call.pos0 + Width(call.op)
        \/ call.st = "err" /\ ~call.wrote

\* C8: no call accesses an index of the array outside [0, 512), which would
\* be the panic of the index; read with the cursor at or after 512 and get at
\* or after 512 return an error, touching nothing.
C8_NoAccessOutsideArray ==
    /\ call.hi < Capacity
    /\ call.err # IndexOutOfBounds
    /\ q.st = "loop" => q.b.hi < Capacity
    /\ (call.op = "read" /\ call.pos0 >= Capacity) =>
          (call.st = "err" /\ call.hi = -1 /\ ~call.wrote)
    /\ (call.op = "get" /\ call.arg >= Capacity) =>
          (call.st = "err" /\ call.hi = -1 /\ ~call.wrote)

\* a peek at offset 512 has failed
C8_Witness ==
    /\ call.op = "get"
    /\ call.arg = Capacity
    /\ call.st = "err"

\* C9, as stated: the cursor is within [0, 512] in every reachable state.
C9_CursorInRange == pos >= 0 /\ pos <= Capacity

\* C9, amended: seek sets the cursor to its argument and step adds its
\* argument, whatever the result; the calls that only read or write bytes
\* never move a cursor that is within [0, 512] beyond 512; read_qname and
\* Question::read leave it at 513 at most.
C9_CursorMoves ==
    /\ pos >= 0
    /\ call.op = "seek" => pos = call.arg
    /\ call.op = "step" => pos = call.pos0 + call.arg
    /\ (call.op \in Accessors /\ call.pos0 <= Capacity) => pos <= Capacity
    /\ (call.op \in {"read_qname", "Question::read"} /\ call.pos0 <= Capacity) =>
          pos <= Capacity + 1

\* read_qname, started at 511 on a pointer byte, has left the cursor at 513
C9_Witness ==
    /\ call.op = "read_qname"
    /\ call.pos0 = Capacity - 1
    /\ call.st = "err"
    /\ pos = Capacity + 1

\* C10: Header::read of a header whose opcode is above 2 or whose response
\* code is above 5 returns an error, and no decoder aborts the program.
C10_InvalidEnumIsError ==
    /\ (/\ call.op = "Header::read"
        /\ call.pos0 + 12 <= Capacity
        /\ \/ (RefAt(call.pos0 + 2) \div 8) % 16 > 2
           \/ RefAt(call.pos0 + 3) % 16 > 5) => call.st = "err"
    /\ call.op \in Decoders => call.st # "panic"

\* the 16-bit value stored at offset p, most significant byte first
RefU16(p) == RefAt(p) * 256 + RefAt(p + 1)

\* the name at p can be decoded
NameAt(p) == read_qname(BufferAt(p), <<>>).st = "ok"

\* C11: Record::read of a record whose type code is not 1 returns the Unknown
\* variant with the raw type code, the declared data length and the TTL, and
\* leaves the cursor data_len bytes past the record's fixed header.
C11_UnknownRecordSkipped ==
    LET e == RefEnd(call.pos0) IN
    (/\ call.op = "Record::read"
     /\ NameAt(call.pos0)
     /\ e + 10 <= Capacity
     /\ RefU16(e) # QTypeA) =>
        /\ call.st = "ok"
        /\ call.val.kind = "Unknown"
        /\ call.val.qtype = RefU16(e)
        /\ call.val.data_len = RefU16(e + 8)
        /\ call.val.ttl = U32(RefAt(e + 4), RefAt(e + 5), RefAt(e + 6), RefAt(e + 7))
        /\ pos = e + 10 + RefU16(e + 8)

\* the n bytes stored from offset p
BytesAt(p, n) == [i \in 1..n |-> RefAt(p + i - 1)]

\* the 12 bytes Header::write produces for h in a fresh buffer
HeaderBytes(h) == [i \in 1..12 |-> HeaderWrite(h, new).b.buf[i - 1]]

\* a byte with its bits 4, 5 and 6 cleared
ClearZ(x) == x - ((x \div 16) % 8) * 16

\* Header::read of what Header::write has just written returns the header
\* written and ends where the write ended
WriteThenRead ==
    (call.op = "Header::write" /\ call.st = "ok") =>
        LET r == HeaderRead(HeaderDefault, BufferAt(call.pos0))
        IN  r.st = "ok" /\ r.val = call.arg /\ r.b.pos = pos

\* C12, as stated: Header::read of the bytes Header::write produced returns
\* the header written, and Header::write of a header that Header::read
\* decoded reproduces the 12 bytes decoded.
C12_HeaderInverse ==
    /\ WriteThenRead
    /\ (call.op = "Header::read" /\ call.st = "ok") =>
          HeaderBytes(call.val) = BytesAt(call.pos0, 12)

\* C12, amended: Header::read of the bytes Header::write produced returns the
\* header written; Header::write of a decoded header reproduces the 12 bytes
\* decoded except bits 4-6 of the fourth byte (the Z bits), which it writes
\* as zero.
C12_HeaderInverseButZ ==
    /\ WriteThenRead
    /\ (call.op = "Header::read" /\ call.st = "ok") =>
          HeaderBytes(call.val) =
              [BytesAt(call.pos0, 12) EXCEPT ![4] = ClearZ(@)]

\* a header whose fourth byte is 0x20 has been decoded; written back, that
\* byte is 0
C12_Witness ==
    /\ call.op = "Header::read"
    /\ call.st = "ok"
    /\ call.pos0 = 324
    /\ RefAt(327) = 32
    /\ HeaderBytes(call.val)[4] = 0
    /\ call.val.id = 43981

\* the length of the dot-separated label of name that starts at index s
LabelLenFrom(name, s) ==
    (CHOOSE j \in s..(Len(name) + 1) :
        /\ j = Len(name) + 1 \/ name[j] = 46
        /\ \A k \in s..(j - 1) : name[k] # 46) - s

\* the indexes at which the dot-separated labels of name start
LabelStarts(name) ==
    {s \in 1..(Len(name) + 1) : s = 1 \/ name[s - 1] = 46}

\* The encoding of name, given as its bytes: every dot-separated label (an
\* empty one included) as its length then its bytes, then one zero byte.
\* Byte k + 1 stands for byte k of the name: a dot becomes the length of the
\* label after it.
RefEncode(name) ==
    [k \in 1..(Len(name) + 2) |->
        IF k = Len(name) + 2 THEN 0
        ELSE IF k = 1 \/ name[k - 1] = 46 THEN LabelLenFrom(name, k)
        ELSE name[k - 1]]

\* C13: write_qname fails when a dot-separated label is longer than 63
\* bytes; otherwise, when the encoding fits, it succeeds, the bytes from the
\* cursor are the labels as length then bytes and one zero byte, the cursor
\* has advanced by their number, and no length byte is a pointer.
C13_WriteQnameEncoding ==
    call.op = "write_qname" =>
        LET name == as_bytes(call.arg)
            enc == RefEncode(name)
        IN  /\ (\E s \in LabelStarts(name) : LabelLenFrom(name, s) > MaxLabel) =>
                  call.st = "err"
            /\ (/\ \A s \in LabelStarts(name) : LabelLenFrom(name, s) <= MaxLabel
                /\ call.pos0 + Len(enc) <= Capacity) =>
                  /\ call.st = "ok"
                  /\ BytesAt(call.pos0, Len(enc)) = enc
                  /\ pos = call.pos0 + Len(enc)
                  /\ \A s \in LabelStarts(name) :
                        ~IsPointer(RefAt(call.pos0 + s - 1))

\* "www.google.com" has been written as 16 bytes that end at the end of the
\* buffer
C13_Witness ==
    /\ call.op = "write_qname"
    /\ call.arg = WwwGoogleCom
    /\ call.st = "ok"
    /\ call.pos0 = Capacity - 16
    /\ pos = Capacity
    /\ BytesAt(call.pos0, 5) = <<3, 119, 119, 119, 6>>

\* the buffer as it is now, after seek(p)
SoughtTo(p) == seek(BufferAt(pos), p).b

\* C14: write_u16(v) at p with p + 2 <= 512 succeeds, stores the most
\* significant byte first and leaves the cursor at p + 2, and seek(p) then
\* read_u16 returns v with the cursor at p + 2; likewise write_u32 and
\* read_u32 with 4 bytes.
C14_BigEndianWords ==
    /\ (call.op = "write_u16" /\ call.pos0 + 2 <= Capacity) =>
          /\ call.st = "ok"
          /\ pos = call.pos0 + 2
          /\ BytesAt(call.pos0, 2) = <<call.arg \div 256, call.arg % 256>>
          /\ LET r == read_u16(SoughtTo(call.pos0))
             IN  r.st = "ok" /\ r.val = call.arg /\ r.b.pos = call.pos0 + 2
    /\ (call.op = "write_u32" /\ call.pos0 + 4 <= Capacity) =>
          /\ call.st = "ok"
          /\ pos = call.pos0 + 4
          /\ BytesAt(call.pos0, 4) =
                 <<Byte(call.arg, 0), Byte(call.arg, 1),
                   Byte(call.arg, 2), Byte(call.arg, 3)>>
          /\ LET r == read_u32(SoughtTo(call.pos0))
             IN  r.st = "ok" /\ r.val = call.arg /\ r.b.pos = call.pos0 + 4

\* 0x1234 has been written into the last two bytes of the buffer
C14_Witness ==
    /\ call.op = "write_u16"
    /\ call.arg = 4660
    /\ call.pos0 = Capacity - 2
    /\ call.st = "ok"
    /\ RefAt(Capacity - 2) = 18
    /\ RefAt(Capacity - 1) = 52

\* C15: after write_qname has encoded a name at p, seek(p) then read_qname
\* into an empty string returns the name in lower case and leaves the cursor
\* where write_qname left it.
C15_WriteThenReadQname ==
    (call.op = "write_qname" /\ call.st = "ok") =>
        LET r == read_qname(SoughtTo(call.pos0), <<>>)
        IN  /\ r.st = "ok"
            /\ r.outstr = RefLowerStr(call.arg)
            /\ r.b.pos = pos

\* C16, as stated: after Record::read has returned a record, the cursor is
\* data_len bytes past the record's fixed header.
C16_CursorAfterRdata ==
    (call.op = "Record::read" /\ call.st = "ok") =>
        pos = RefEnd(call.pos0) + 10 + RefU16(RefEnd(call.pos0) + 8)

\* C16, amended: after Record::read has returned an Unknown record the cursor
\* is data_len bytes past the fixed header; after it has returned an A record
\* the cursor is 4 bytes past the fixed header, whatever the declared data
\* length, and the address is those 4 bytes.
C16_CursorAfterRecord ==
    (call.op = "Record::read" /\ call.st = "ok") =>
        LET e == RefEnd(call.pos0) IN
        /\ call.val.kind = "Unknown" =>
              (RefU16(e) # QTypeA /\ pos = e + 10 + RefU16(e + 8))
        /\ call.val.kind = "A" =>
              /\ RefU16(e) = QTypeA
              /\ pos = e + 10 + 4
              /\ call.val.addr = BytesAt(e + 10, 4)

\* an A record declaring 6 data bytes has been read: the cursor is 2 bytes
\* before the next record
C16_Witness ==
    /\ call.op = "Record::read"
    /\ call.st = "ok"
    /\ call.pos0 = 202
    /\ call.val.kind = "A"
    /\ RefU16(RefEnd(call.pos0) + 8) = 6
    /\ pos = 218

=============================================================================
